---- MODULE Spec2Model ----
(***************************************************************************)
(* Model of src/client.py: the Client class of the Tracker.gg Splitgate    *)
(* API wrapper, the HTTP endpoint it talks to, and the caller that         *)
(* constructs the client, reassigns its attributes and invokes its         *)
(* methods.                                                                *)
(*                                                                         *)
(* Python values are represented as follows.                               *)
(*   - A JSON value (dict / list / scalar) is a function from paths        *)
(*     (sequences of keys; a list index i is the key "i") to leaves        *)
(*     (strings).  A scalar is the function on the empty path only.        *)
(*   - A str -> str dict (headers, query) is a function from strings to    *)
(*     strings.                                                            *)
(*   - A URL is a string; an f-string is the concatenation of its parts.   *)
(*   - What a call hands back to its caller is an outcome record           *)
(*     [kind, body, code, exc, key]: kind "json" (a parsed body), "int"    *)
(*     (a status code), "dict" / "str" (other return values), "None",      *)
(*     or "raise" (an exception exc, for KeyError with the missing key).   *)
(***************************************************************************)
EXTENDS Integers, Sequences, FiniteSets, TLC

VARIABLES client, server, last, constructed_with

vars == <<client, server, last, constructed_with>>

----------------------------------------------------------------------------
(* Input domains *)

\* API keys a caller may pass (API_KEY: str); the empty string is a str.
Keys == {"", "abc123", "k2"}

\* Platform slugs and user identifiers.
Platforms == {"steam", "xbl"}

UserIdentifiers == {"76561198085274423", "triikk"}

\* Status codes the endpoint may answer with, on both sides of every
\* boundary of the 2xx class.
Statuses == {199, 200, 298, 299, 300, 404}

\* Stat keys a caller may ask for; the profile fixture only has the first.
StatKeys == {"matchesPlayed", "kills"}

EmptyMap == [x \in {} |-> ""]

\* Query dicts passed to search_player.
Queries ==
    { [k \in {"platform", "platformUserIdentifier"} |->
          IF k = "platform" THEN "steam" ELSE u] : u \in UserIdentifiers }
    \cup { [k \in {"platform"} |-> "xbl"] }

----------------------------------------------------------------------------
(* JSON values *)

Scalar(s) == [p \in {<<>>} |-> s]

\* The dict {k: v}: every path of v prefixed by k.
Field(k, v) == [p \in {<<k>> \o q : q \in DOMAIN v} |-> v[Tail(p)]]

\* Merge of dicts with disjoint keys.
Merge(a, b) == [p \in DOMAIN a \cup DOMAIN b |-> IF p \in DOMAIN a THEN a[p] ELSE b[p]]

PlatformInfoFields ==
    {"plaftormSlug", "plaftormUserId", "plaftormUserHandle",
     "platformUserIdentifier", "avatarUrl", "additionalParameters"}

UserInfoScalarFields ==
    {"userId", "isPremium", "isVerified", "isInfluencer", "isPartner",
     "countryCode", "customAvatarUrl", "customHeroUrl", "pageviews", "isSuspicious"}

StatFields ==
    {"rank", "percentile", "displayName", "displayCategory", "category",
     "metadata", "value", "displayValue", "displayType"}

\* A profile payload of the shape the helpers read; each leaf holds a value
\* naming its own field, so that values of different fields differ.
ProfileBody ==
    Field("data",
      Merge(Field("platformInfo",
                  [p \in {<<k>> : k \in PlatformInfoFields} |-> "pi:" \o p[1]]),
      Merge(Field("userInfo",
                  Merge([p \in {<<k>> : k \in UserInfoScalarFields} |-> "ui:" \o p[1]],
                        Field("socialAccounts", Field("0",
                            [p \in {<<k>> : k \in {"platformSlug", "platformUserHandle",
                                                   "platformUserIdentifier"}} |-> "sa:" \o p[1]])))),
            Field("segments", Field("0", Field("stats", Field("matchesPlayed",
                  [p \in {<<k>> : k \in StatFields} |-> "st:" \o p[1]])))))))

\* A search payload: data is a list of matches.
SearchBody ==
    Field("data", Field("0",
        [p \in {<<k>> : k \in {"platformSlug", "platformUserIdentifier",
                               "platformUserHandle"}} |-> "sr:" \o p[1]]))

\* An error payload.
ErrorBody == Field("errors", Field("0", Field("message", Scalar("not found"))))

Bodies == {ProfileBody, SearchBody, ErrorBody}

----------------------------------------------------------------------------
(* Outcomes of a call *)

NoBody == [p \in {} |-> ""]

JsonOutcome(v) == [kind |-> "json", body |-> v, code |-> 0, exc |-> "", key |-> ""]

IntOutcome(n) == [kind |-> "int", body |-> NoBody, code |-> n, exc |-> "", key |-> ""]

DictOutcome(d) ==
    [kind |-> "dict", body |-> [p \in {<<k>> : k \in DOMAIN d} |-> d[p[1]]],
     code |-> 0, exc |-> "", key |-> ""]

StrOutcome(s) == [kind |-> "str", body |-> Scalar(s), code |-> 0, exc |-> "", key |-> ""]

NoneOutcome == [kind |-> "None", body |-> NoBody, code |-> 0, exc |-> "", key |-> ""]

Raise(e, k) == [kind |-> "raise", body |-> NoBody, code |-> 0, exc |-> e, key |-> k]

----------------------------------------------------------------------------
(* The HTTP layer: the endpoint serialises its payload, requests.get hands   *)
(* back a response holding the status code and the text, and                 *)
(* response.json() parses the text.                                          *)

RECURSIVE SetToSeq(_)
SetToSeq(S) ==
    IF S = {} THEN <<>>
    ELSE LET x == CHOOSE y \in S : TRUE IN <<x>> \o SetToSeq(S \ {x})

\* The served text of payload v: its (path, leaf) entries in document order.
Dumps(v) == SetToSeq({<<p, v[p]>> : p \in DOMAIN v})

\* Parsing: every path of the text, a repeated path keeping its last entry.
Loads(text) ==
    [p \in {text[i][1] : i \in DOMAIN text} |->
        LET i == CHOOSE j \in DOMAIN text :
                     /\ text[j][1] = p
                     /\ \A m \in DOMAIN text : text[m][1] = p => m <= j
        IN  text[i][2]]

\* The response object requests.get returns for what the endpoint serves.
Response(srv) == [status_code |-> srv.status_code, text |-> Dumps(srv.body)]

json(response) == Loads(response.text)

range(a, b) == a .. (b - 1)

\* The request as handed to requests.get.
Request(url, headers) == [method |-> "GET", url |-> url, headers |-> headers]

----------------------------------------------------------------------------
(* Client *)

get_headers(self) ==
    [h \in {"TRN-API-Key", "Accept", "Accept-Encoding"} |->
        CASE h = "TRN-API-Key" -> self.API_KEY
          [] h = "Accept" -> "application/json"
          [] h = "Accept-Encoding" -> "gzip"]

get_api_key(self) == self.API_KEY

\* Client.__init__: stores the key, then builds and stores the headers.
\* There is no validation of API_KEY.
__init__(API_KEY) ==
    LET self == [API_KEY |-> API_KEY, headers |-> EmptyMap]
    IN  [self EXCEPT !.headers = get_headers(self)]

\* Attributes of the package urllib under Python 3 (the f-string of
\* get_player_stats needs Python >= 3.6): its submodules, and no function
\* urlencode, which lives in urllib.parse.
urllib == {"error", "parse", "request", "response", "robotparser"}

SEARCH_URL == "https://public-api.tracker.gg/v2/splitgate/standard/search?{query}"

PROFILE_URL == "https://public-api.tracker.gg/v2/splitgate/standard/profile/"

\* Variant: the headers rebuilt from the current API_KEY at each request.
request_headers_rebuilt(self) == get_headers(self)

\* The headers argument of both requests.get calls.
request_headers(self) == self.headers

search_player_return(response) ==
    IF response.status_code \in range(200, 299)
    THEN JsonOutcome(json(response))
    ELSE IntOutcome(response.status_code)

\* search_player: [requests issued, outcome].  The attribute lookup
\* urllib.urlencode is evaluated first; the URL is a plain string literal
\* (no f prefix), so the rebound query is never read.
search_player(self, platform, query, srv) ==
    IF "urlencode" \notin urllib
    THEN [requests |-> <<>>, outcome |-> Raise("AttributeError", "urlencode")]
    ELSE [requests |-> <<Request(SEARCH_URL, request_headers(self))>>,
          outcome |-> search_player_return(Response(srv))]

\* Variant: the upper bound of search_player's range.
get_player_stats_return_299(response) ==
    IF response.status_code \in range(200, 299)
    THEN JsonOutcome(json(response))
    ELSE IntOutcome(response.status_code)

get_player_stats_return(response) ==
    IF response.status_code \in range(200, 300)
    THEN JsonOutcome(json(response))
    ELSE IntOutcome(response.status_code)

profile_url(platform, user_identifier) ==
    PROFILE_URL \o platform \o "/" \o user_identifier

\* get_player_stats: [requests issued, outcome].
get_player_stats(self, platform, user_identifier, srv) ==
    [requests |-> <<Request(profile_url(platform, user_identifier), request_headers(self))>>,
     outcome |-> get_player_stats_return(Response(srv))]

----------------------------------------------------------------------------
(* The extraction helpers.  Their def statements sit in the body of         *)
(* get_player_stats (indentation 8), after the if/else whose two branches  *)
(* both return.                                                            *)

HasKey(v, k) == \E p \in DOMAIN v : Len(p) > 0 /\ p[1] = k

Item(v, k) ==
    [q \in {Tail(p) : p \in {r \in DOMAIN v : Len(r) > 0 /\ r[1] = k}} |-> v[<<k>> \o q]]

\* v[path[1]][path[2]]..., subscript by subscript: a scalar is not
\* subscriptable by a key (TypeError), an absent key raises KeyError(key).
RECURSIVE Lookup(_, _)
Lookup(v, path) ==
    IF path = <<>> THEN JsonOutcome(v)
    ELSE IF <<>> \in DOMAIN v THEN Raise("TypeError", "")
    ELSE IF ~HasKey(v, Head(path)) THEN Raise("KeyError", Head(path))
    ELSE Lookup(Item(v, Head(path)), Tail(path))

\* A dict display {entries[i][1]: response[entries[i][2]...]}, its values
\* evaluated in order; the first one that raises ends the evaluation.
DictDisplay(response, entries) ==
    IF response.kind # "json" THEN Raise("TypeError", "")
    ELSE
    LET res == [i \in DOMAIN entries |-> Lookup(response.body, entries[i][2])]
        bad == {i \in DOMAIN entries : res[i].kind = "raise"}
        idx(k) == CHOOSE i \in DOMAIN entries : entries[i][1] = k
    IN  IF bad # {}
        THEN res[CHOOSE i \in bad : \A j \in bad : i <= j]
        ELSE JsonOutcome(
                [p \in UNION {{<<entries[i][1]>> \o q : q \in DOMAIN res[i].body} :
                                  i \in DOMAIN entries} |->
                    res[idx(p[1])].body[Tail(p)]])

get_platform_info(response) ==
    DictDisplay(response, <<
        <<"plaftormSlug", <<"data", "platformInfo", "plaftormSlug">> >>,
        <<"platformUserId", <<"data", "platformInfo", "plaftormUserId">> >>,
        <<"plaftormUserHandle", <<"data", "platformInfo", "plaftormUserHandle">> >>,
        <<"platformUserIdentifier", <<"data", "platformInfo", "platformUserIdentifier">> >>,
        <<"avatarUrl", <<"data", "platformInfo", "avatarUrl">> >>,
        <<"additionalParameters", <<"data", "platformInfo", "additionalParameters">> >> >>)

get_profile_info(response) ==
    DictDisplay(response, <<
        <<"userId", <<"data", "userInfo", "userId">> >>,
        <<"isPremium", <<"data", "userInfo", "isPremium">> >>,
        <<"isVerified", <<"data", "userInfo", "isVerified">> >>,
        <<"isInfluencer", <<"data", "userInfo", "isInfluencer">> >>,
        <<"isPartner", <<"data", "userInfo", "isPartner">> >>,
        <<"countryCode", <<"data", "userInfo", "countryCode">> >>,
        <<"customAvatarUrl", <<"data", "userInfo", "customAvatarUrl">> >>,
        <<"customHeroUrl", <<"data", "userInfo", "customHeroUrl">> >>,
        <<"socialAccounts", <<"data", "userInfo", "socialAccounts">> >>,
        <<"pageviews", <<"data", "userInfo", "pageviews">> >>,
        <<"isSuspicious", <<"data", "userInfo", "isSuspicious">> >> >>)

stat_entries(stat) == <<
    <<"rank", <<"data", "segments", "0", "stats", stat, "rank">> >>,
    <<"percentile", <<"data", "segments", "0", "stats", stat, "percentile">> >>,
    <<"displayName", <<"data", "segments", "0", "stats", stat, "displayName">> >>,
    <<"displayCategory", <<"data", "segments", "0", "stats", stat, "displayCategory">> >>,
    <<"category", <<"data", "segments", "0", "stats", stat, "category">> >>,
    <<"metadata", <<"data", "segments", "0", "stats", stat, "metadata">> >>,
    <<"value", <<"data", "segments", "0", "stats", stat, "value">> >>,
    <<"displayValue", <<"data", "segments", "0", "stats", stat, "displayValue">> >>,
    <<"displayType", <<"data", "segments", "0", "stats", stat, "displayType">> >> >>

\* Variant: a missing key swallowed and an empty dict returned.
get_stat_default(response, stat) ==
    LET r == DictDisplay(response, stat_entries(stat))
    IN  IF r.kind = "raise" /\ r.exc = "KeyError" THEN JsonOutcome(NoBody) ELSE r

get_stat(response, stat) == DictDisplay(response, stat_entries(stat))

HelperNames == {"get_platform_info", "get_profile_info", "get_stat"}

\* Names the class body binds: the def statements at indentation 4.
ClassAttributes ==
    {"__init__", "get_api_key", "get_headers", "search_player", "get_player_stats"}

\* Names the module body binds: its assignments, imports and class statement.
ModuleGlobals == {"__author__", "requests", "urllib", "getenv", "Client"}

\* What the lookup of a helper's name finds: through the instance
\* (client.name) the class attributes, through the module (module.name) the
\* module globals.  The three def statements that follow the if/else of
\* get_player_stats are never executed, so they bind the helpers' names in
\* no namespace (and a function's locals are visible to no caller).
Bound(via, name) ==
    IF via = "instance" THEN name \in ClassAttributes ELSE name \in ModuleGlobals

\* A caller's attempt to invoke helper name on response (and stat).
call_helper(via, name, response, stat) ==
    IF ~Bound(via, name) THEN Raise("AttributeError", name)
    ELSE CASE name = "get_platform_info" -> get_platform_info(response)
           [] name = "get_profile_info" -> get_profile_info(response)
           [] name = "get_stat" -> get_stat(response, stat)

----------------------------------------------------------------------------
(* State                                                                   *)
(*   client  the Client instance: [API_KEY, headers]                       *)
(*   server  what the endpoint answers a request with: [status_code, body] *)
(*   last    the caller's last operation: its name and arguments, the      *)
(*           endpoint's answer at that time, the requests the operation    *)
(*           handed to requests.get, and its outcome                       *)
(*   constructed_with  history: the API_KEY argument the client was        *)
(*           constructed with                                              *)

NoAnswer == [status_code |-> 0, body |-> NoBody]

Idle ==
    [op |-> "", key |-> "", platform |-> "", query |-> EmptyMap,
     user_identifier |-> "", via |-> "", name |-> "", stat |-> "",
     response |-> NoneOutcome, answer |-> NoAnswer,
     requests |-> <<>>, outcome |-> NoneOutcome]

Init ==
    /\ \E k \in Keys :
          /\ client = __init__(k)
          /\ constructed_with = k
          /\ last = [Idle EXCEPT !.op = "__init__", !.key = k]
    /\ \E s \in Statuses, b \in Bodies : server = [status_code |-> s, body |-> b]

\* Client(API_KEY): a caller constructs a client.
Client(k) ==
    /\ client' = __init__(k)
    /\ constructed_with' = k
    /\ last' = [Idle EXCEPT !.op = "__init__", !.key = k]
    /\ UNCHANGED server

\* client.API_KEY = k: a caller reassigns the attribute.
SetApiKey(k) ==
    /\ client' = [client EXCEPT !.API_KEY = k]
    /\ last' = [Idle EXCEPT !.op = "API_KEY=", !.key = k]
    /\ UNCHANGED <<server, constructed_with>>

\* The endpoint (or a stub of it) changes what it answers.
Serve(s, b) ==
    /\ server' = [status_code |-> s, body |-> b]
    /\ UNCHANGED <<client, last, constructed_with>>

GetApiKey ==
    /\ last' = [Idle EXCEPT !.op = "get_api_key", !.outcome = StrOutcome(get_api_key(client))]
    /\ UNCHANGED <<client, server, constructed_with>>

GetHeaders ==
    /\ last' = [Idle EXCEPT !.op = "get_headers", !.outcome = DictOutcome(get_headers(client))]
    /\ UNCHANGED <<client, server, constructed_with>>

SearchPlayer(platform, query) ==
    /\ LET r == search_player(client, platform, query, server)
       IN  last' = [Idle EXCEPT !.op = "search_player", !.platform = platform,
                                !.query = query, !.answer = server,
                                !.requests = r.requests, !.outcome = r.outcome]
    /\ UNCHANGED <<client, server, constructed_with>>

GetPlayerStats(platform, user_identifier) ==
    /\ LET r == get_player_stats(client, platform, user_identifier, server)
       IN  last' = [Idle EXCEPT !.op = "get_player_stats", !.platform = platform,
                                !.user_identifier = user_identifier, !.answer = server,
                                !.requests = r.requests, !.outcome = r.outcome]
    /\ UNCHANGED <<client, server, constructed_with>>

\* A caller passes what get_player_stats just returned to a helper.
CallHelper(via, name, stat) ==
    /\ last.op = "get_player_stats"
    /\ last' = [Idle EXCEPT !.op = name, !.via = via, !.name = name,
                            !.stat = IF name = "get_stat" THEN stat ELSE "",
                            !.response = last.outcome,
                            !.outcome = call_helper(via, name, last.outcome, stat)]
    /\ UNCHANGED <<client, server, constructed_with>>

Next ==
    \/ \E k \in Keys : Client(k)
    \/ \E k \in Keys : SetApiKey(k)
    \/ \E s \in Statuses, b \in Bodies : Serve(s, b)
    \/ GetApiKey
    \/ GetHeaders
    \/ \E p \in Platforms, q \in Queries : SearchPlayer(p, q)
    \/ \E p \in Platforms, u \in UserIdentifiers : GetPlayerStats(p, u)
    \/ \E via \in {"instance", "module"}, n \in HelperNames, k \in StatKeys :
          CallHelper(via, n, k)

Spec == Init /\ [][Next]_vars

----------------------------------------------------------------------------
(* The helper bodies as pure functions: each applied to what a caller may  *)
(* hold after get_player_stats (a parsed body or a status code).           *)

Without(v, p) == [q \in DOMAIN v \ {p} |-> v[q]]

\* A profile payload whose only stat is "kills".
KillsBody ==
    Field("data", Field("segments", Field("0", Field("stats", Field("kills",
        [p \in {<<k>> : k \in StatFields} |-> "st:" \o p[1]])))))

HelperInputs ==
    {JsonOutcome(b) : b \in Bodies \cup {KillsBody}
                            \cup {Without(ProfileBody, p) : p \in DOMAIN ProfileBody}}
    \cup {IntOutcome(s) : s \in Statuses}

InitHelpers ==
    /\ client = __init__("abc123")
    /\ constructed_with = "abc123"
    /\ server = [status_code |-> 200, body |-> ProfileBody]
    /\ \E r \in HelperInputs : last = [Idle EXCEPT !.response = r]

GetPlatformInfo ==
    /\ last' = [last EXCEPT !.op = "get_platform_info", !.name = "get_platform_info",
                            !.stat = "", !.outcome = get_platform_info(last.response)]
    /\ UNCHANGED <<client, server, constructed_with>>

GetProfileInfo ==
    /\ last' = [last EXCEPT !.op = "get_profile_info", !.name = "get_profile_info",
                            !.stat = "", !.outcome = get_profile_info(last.response)]
    /\ UNCHANGED <<client, server, constructed_with>>

GetStat(stat) ==
    /\ last' = [last EXCEPT !.op = "get_stat", !.name = "get_stat",
                            !.stat = stat, !.outcome = get_stat(last.response, stat)]
    /\ UNCHANGED <<client, server, constructed_with>>

NextHelpers ==
    \/ GetPlatformInfo
    \/ GetProfileInfo
    \/ \E k \in StatKeys : GetStat(k)

SpecHelpers == InitHelpers /\ [][NextHelpers]_vars

----------------------------------------------------------------------------
(* Properties *)

Is2xx(n) == n \in 200 .. 299

ExpectedHeaders(k) ==
    ("TRN-API-Key" :> k) @@ ("Accept" :> "application/json") @@ ("Accept-Encoding" :> "gzip")

\* C1: whenever the profile endpoint answers get_player_stats with a status
\* in 200..299 (299 included), the call returns the parsed body, equal to the
\* served payload, and not the status code.
C1_StatsReturnsBody ==
    (last.op = "get_player_stats" /\ Is2xx(last.answer.status_code))
        => last.outcome = JsonOutcome(last.answer.body)

C1_Witness ==
    /\ last.op = "get_player_stats"
    /\ last.answer.status_code = 299
    /\ last.outcome.kind = "json"
    /\ last.outcome.body = ProfileBody

\* C2: whenever the search endpoint answers with a status in 200..299 (299
\* included), search_player returns the parsed body and not the status code.
C2_SearchReturnsBody ==
    (last.op = "search_player" /\ Is2xx(last.answer.status_code))
        => last.outcome = JsonOutcome(last.answer.body)

\* C3: for every status outside 200..299, search_player and get_player_stats
\* both return exactly that integer: no exception, no body, no other value.
C3_FailureReturnsStatus ==
    (last.op \in {"search_player", "get_player_stats"} /\ ~Is2xx(last.answer.status_code))
        => last.outcome = IntOutcome(last.answer.status_code)

\* C4: no client constructed with an empty API key exists, and no request
\* carries an empty TRN-API-Key header.
C4_NoEmptyKeyClient ==
    /\ constructed_with # ""
    /\ \A i \in DOMAIN last.requests : last.requests[i].headers["TRN-API-Key"] # ""

\* C5: the headers the client holds, and the headers of every request it
\* issues, are exactly the three entries built from the key given at
\* construction, whatever API_KEY has been reassigned to since.
C5_HeadersFixed ==
    /\ client.headers = ExpectedHeaders(constructed_with)
    /\ \A i \in DOMAIN last.requests :
          last.requests[i].headers = ExpectedHeaders(constructed_with)

C5_Witness ==
    /\ last.op = "get_player_stats"
    /\ Len(last.requests) = 1
    /\ client.API_KEY # constructed_with

RECURSIVE Join(_)
Join(parts) ==
    IF parts = <<>> THEN ""
    ELSE IF Len(parts) = 1 THEN parts[1]
    ELSE parts[1] \o "&" \o Join(Tail(parts))

\* The URL-encoded serialisation of a query dict: its k=v pairs joined by &.
QueryString(q) == Join(SetToSeq({k \o "=" \o q[k] : k \in DOMAIN q}))

SEARCH_ENDPOINT == "https://public-api.tracker.gg/v2/splitgate/standard/search"

\* C6: search_player requests the search endpoint followed by "?" and the
\* URL-encoded serialisation of its query.
C6_SearchUrlCarriesQuery ==
    last.op = "search_player"
        => /\ Len(last.requests) = 1
           /\ last.requests[1].url = SEARCH_ENDPOINT \o "?" \o QueryString(last.query)

HoldsPlatformInfo(r) ==
    /\ r.kind = "json"
    /\ \A k \in PlatformInfoFields : <<"data", "platformInfo", k>> \in DOMAIN r.body

\* C7: on a response whose data.platformInfo holds the six fields,
\* get_platform_info returns a mapping with exactly those six names, each
\* mapped to the value the response holds under the same name.
C7_PlatformInfoSameNames ==
    (last.op = "get_platform_info" /\ HoldsPlatformInfo(last.response))
        => /\ last.outcome.kind = "json"
           /\ DOMAIN last.outcome.body = {<<k>> : k \in PlatformInfoFields}
           /\ \A k \in PlatformInfoFields :
                 last.outcome.body[<<k>>] = last.response.body[<<"data", "platformInfo", k>>]

StatsPath == <<"data", "segments", "0", "stats">>

\* r is a parsed body that has data.segments[0].stats, without an entry k.
StatsLacks(r, k) ==
    /\ r.kind = "json"
    /\ \E p \in DOMAIN r.body : Len(p) > 4 /\ SubSeq(p, 1, 4) = StatsPath
    /\ \A p \in DOMAIN r.body : (Len(p) > 4 /\ SubSeq(p, 1, 4) = StatsPath) => p[5] # k

C9_ExactlyOneRequest ==
    last.op \in {"search_player", "get_player_stats"}
        => /\ Len(last.requests) = 1
           /\ last.requests[1].method = "GET"

\* C10: a caller that invokes a helper on the profile response that
\* get_player_stats returned obtains the helper's extracted mapping.
C10_HelpersCallable ==
    (/\ last.op \in HelperNames
     /\ last.response = JsonOutcome(ProfileBody)
     /\ last.stat \in {"", "matchesPlayed"})
        => last.outcome.kind = "json"

\* No lookup of a helper's name ever finds a function: every attempt to
\* invoke one ends in AttributeError.
HelpersNeverBound ==
    last.op \in HelperNames => last.outcome = Raise("AttributeError", last.op)

====
